---------------------------- MODULE Spec2Model ----------------------------
(***************************************************************************)
(* Model of the India crime dashboard script (src/app/streamlit_app.py):   *)
(* the name normaliser, the alias table, the boundary-property detector,   *)
(* the column detection, the aggregation and the reconciliation of one     *)
(* script run, and the sequence of script runs over the memoized boundary  *)
(* data.                                                                   *)
(*                                                                         *)
(* Text is a sequence of Unicode code points (ord of each character), so   *)
(* case folding, whitespace, sorting and substring tests are computed as   *)
(* Python computes them.  A scalar value (a CSV cell, a GeoJSON property   *)
(* value) is a record [t, s, v]: an int, a float with an integral value,   *)
(* a str, or the missing value NaN.                                        *)
(***************************************************************************)
EXTENDS Integers, Sequences, FiniteSets, TLC

VARIABLES
    pc,             \* position of the script run
    status,         \* how the run ended: "" while running
    geoData,        \* what each boundary URL serves (fixed for a behaviour)
    memo,           \* st.cache_data's entries for load_geojson, by URL
    geojson_url,    \* the sidebar's boundary source
    uploaded,       \* the sidebar's uploaded file
    df_raw,         \* the data frame read from it
    aliased,        \* the run's india_geojson is the memoized object itself
    returned,       \* history: the features as load_geojson returned them
    india_geojson,  \* the run's feature list (each feature: its properties)
    geo_norm_set,
    state_col,
    numeric_cols,
    metric_col,
    state_to_value, \* df_agg as a mapping __state_norm -> metric_value
    unmatched,
    mapped_df,      \* the ranked table
    arg,            \* function harness: the input
    out1,           \* function harness: the function applied once
    out2,           \* function harness: the function applied twice
    phase           \* function harness: how many applications were made

vars == <<pc, status, geoData, memo, geojson_url, uploaded, df_raw, aliased,
          returned, india_geojson, geo_norm_set, state_col, numeric_cols, metric_col,
          state_to_value, unmatched, mapped_df, arg, out1, out2, phase>>

pipeVars == <<pc, status, geoData, memo, geojson_url, uploaded, df_raw,
              aliased, returned, india_geojson, geo_norm_set, state_col, numeric_cols,
              metric_col, state_to_value, unmatched, mapped_df>>

harnessVars == <<arg, out1, out2, phase>>

---------------------------------------------------------------------------
(* Bounds of the model. *)

\* longest input text of the normaliser harness
MaxLen == 4

\* most properties of a boundary feature in the detector harness
MaxProps == 2

\* most data rows of a generated upload
MaxRows == 2

---------------------------------------------------------------------------
(* Scalar values. *)

StrV(s) == [t |-> "str", s |-> s, v |-> 0]

IntV(n) == [t |-> "int", s |-> <<>>, v |-> n]

FloatV(n) == [t |-> "float", s |-> <<>>, v |-> n]

NaN == [t |-> "nan", s |-> <<>>, v |-> 0]

\* pd.isna on a scalar
isna(x) == x.t = "nan"

RECURSIVE Digits(_)
\* the decimal digits of a natural number
Digits(n) == IF n < 10 THEN <<48 + n>> ELSE Digits(n \div 10) \o <<48 + (n % 10)>>

IntStr(n) == IF n < 0 THEN <<45>> \o Digits(-n) ELSE Digits(n)

\* Python's str() of a scalar: "15", "15.0", "nan", or the text itself
PyStr(x) ==
    CASE x.t = "str" -> x.s
      [] x.t = "int" -> IntStr(x.v)
      [] x.t = "float" -> IntStr(x.v) \o <<46, 48>>
      [] OTHER -> <<110, 97, 110>>

---------------------------------------------------------------------------
(* Python text primitives. *)

\* str.isspace of one character (the ASCII separators and the Unicode spaces)
isspace(c) ==
    \/ c \in 9..13
    \/ c \in 28..32
    \/ c \in {133, 160, 5760, 8232, 8233, 8239, 8287, 12288}
    \/ c \in 8192..8202

\* str.isalpha of one character, for the characters the model draws from
isalpha(c) ==
    \/ c \in 65..90
    \/ c \in 97..122
    \/ c \in {223, 224, 233, 239}

\* str.lower of one character
lowerChar(c) ==
    IF (c \in 65..90) \/ ((c \in 192..222) /\ (c # 215)) THEN c + 32 ELSE c

lower(s) == [i \in 1..Len(s) |-> lowerChar(s[i])]

RECURSIVE lstrip(_)
lstrip(s) == IF s # <<>> /\ isspace(Head(s)) THEN lstrip(Tail(s)) ELSE s

RECURSIVE rstrip(_)
rstrip(s) ==
    IF s # <<>> /\ isspace(s[Len(s)]) THEN rstrip(SubSeq(s, 1, Len(s) - 1)) ELSE s

\* str.strip()
strip(s) == rstrip(lstrip(s))

RECURSIVE split(_)
\* str.split(): the maximal runs of non-whitespace characters
split(s) ==
    LET t == lstrip(s)
        n == IF \E i \in 1..Len(t) : isspace(t[i])
             THEN (CHOOSE i \in 1..Len(t) :
                       isspace(t[i]) /\ \A j \in 1..(i - 1) : ~isspace(t[j])) - 1
             ELSE Len(t)
    IN  IF t = <<>> THEN <<>>
        ELSE <<SubSeq(t, 1, n)>> \o split(SubSeq(t, n + 1, Len(t)))

RECURSIVE join(_, _)
\* sep.join(words)
join(sep, words) ==
    IF words = <<>> THEN <<>>
    ELSE IF Len(words) = 1 THEN words[1]
    ELSE words[1] \o sep \o join(sep, Tail(words))

RECURSIVE replace_amp(_)
\* s.replace("&", "and")
replace_amp(s) ==
    IF s = <<>> THEN <<>>
    ELSE (IF Head(s) = 38 THEN <<97, 110, 100>> ELSE <<Head(s)>>)
         \o replace_amp(Tail(s))

\* unicodedata.normalize("NFKD", c) of one character: the compatibility
\* decomposition of the characters the model draws from
nfkdChar(c) ==
    CASE c = 224 -> <<97, 768>>      \* a with grave
      [] c = 233 -> <<101, 769>>     \* e with acute
      [] c = 239 -> <<105, 776>>     \* i with diaeresis
      [] c = 160 -> <<32>>           \* no-break space
      [] c = 65286 -> <<38>>         \* fullwidth ampersand
      [] OTHER -> <<c>>              \* ASCII, sharp s: no decomposition

RECURSIVE nfkd(_)
nfkd(s) == IF s = <<>> THEN <<>> ELSE nfkdChar(Head(s)) \o nfkd(Tail(s))

\* s.encode("ascii", "ignore").decode("utf-8")
ascii_ignore(s) == SelectSeq(s, LAMBDA c : c < 128)

\* normalize_text with the ampersand replaced by " and " after the
\* whitespace was collapsed
normalize_text_late_amp(x) ==
    IF isna(x) THEN <<>>
    ELSE LET s1 == ascii_ignore(nfkd(PyStr(x)))
             s2 == join(<<32>>, split(strip(s1)))
             RECURSIVE pad(_)
             pad(s) == IF s = <<>> THEN <<>>
                       ELSE (IF Head(s) = 38 THEN <<32, 97, 110, 100, 32>>
                             ELSE <<Head(s)>>) \o pad(Tail(s))
         IN  lower(pad(s2))

normalize_text(x) ==
    IF isna(x) THEN <<>>
    ELSE LET s0 == PyStr(x)
             s1 == ascii_ignore(nfkd(s0))
             s2 == strip(s1)
             s3 == replace_amp(s2)
             s4 == join(<<32>>, split(s3))
         IN  lower(s4)

---------------------------------------------------------------------------
(* The alias table. *)

COMMON_NAME_MAP ==
    LET odisha == <<111, 100, 105, 115, 104, 97>>
        orissa == <<111, 114, 105, 115, 115, 97>>
        uttarakhand == <<117, 116, 116, 97, 114, 97, 107, 104, 97, 110, 100>>
        uttaranchal == <<117, 116, 116, 97, 114, 97, 110, 99, 104, 97, 108>>
        pondicherry == <<112, 111, 110, 100, 105, 99, 104, 101, 114, 114, 121>>
        puducherry == <<112, 117, 100, 117, 99, 104, 101, 114, 114, 121>>
        nct_of_delhi == <<110, 99, 116, 32, 111, 102, 32, 100, 101, 108, 104, 105>>
        delhi == <<100, 101, 108, 104, 105>>
        delhi_nct == <<100, 101, 108, 104, 105, 32, 40, 110, 99, 116, 41>>
        \* "andaman & nicobar islands"
        andaman_amp == <<97, 110, 100, 97, 109, 97, 110, 32, 38, 32, 110, 105,
                         99, 111, 98, 97, 114, 32, 105, 115, 108, 97, 110, 100,
                         115>>
        \* "andaman and nicobar islands"
        andaman_isl == <<97, 110, 100, 97, 109, 97, 110, 32, 97, 110, 100, 32,
                         110, 105, 99, 111, 98, 97, 114, 32, 105, 115, 108, 97,
                         110, 100, 115>>
        \* "andaman and nicobar"
        andaman == <<97, 110, 100, 97, 109, 97, 110, 32, 97, 110, 100, 32, 110,
                     105, 99, 111, 98, 97, 114>>
        \* "dadra & nagar haveli and daman & diu"
        dadra_amp == <<100, 97, 100, 114, 97, 32, 38, 32, 110, 97, 103, 97, 114,
                       32, 104, 97, 118, 101, 108, 105, 32, 97, 110, 100, 32,
                       100, 97, 109, 97, 110, 32, 38, 32, 100, 105, 117>>
        \* "dadra and nagar haveli and daman and diu"
        dadra == <<100, 97, 100, 114, 97, 32, 97, 110, 100, 32, 110, 97, 103, 97,
                   114, 32, 104, 97, 118, 101, 108, 105, 32, 97, 110, 100, 32,
                   100, 97, 109, 97, 110, 32, 97, 110, 100, 32, 100, 105, 117>>
    IN  { <<odisha, orissa>>, <<uttarakhand, uttaranchal>>,
          <<pondicherry, puducherry>>, <<puducherry, puducherry>>,
          <<nct_of_delhi, delhi>>, <<delhi_nct, delhi>>,
          <<andaman_amp, andaman>>, <<andaman_isl, andaman>>,
          <<dadra_amp, dadra>>, <<dadra, dadra>> }

apply_common_map(name) ==
    LET n == normalize_text(name)
    IN  IF \E e \in COMMON_NAME_MAP : e[1] = n
        THEN (CHOOSE e \in COMMON_NAME_MAP : e[1] = n)[2]
        ELSE n

---------------------------------------------------------------------------
(* Ordered mappings (Python dicts): a sequence of entries [k, v] with      *)
(* pairwise different keys, in insertion order.                            *)

dict_keys(d) == [i \in 1..Len(d) |-> d[i].k]

dict_has(d, k) == \E i \in 1..Len(d) : d[i].k = k

\* d.get(k, default)
dict_get(d, k, default) ==
    IF dict_has(d, k) THEN d[CHOOSE i \in 1..Len(d) : d[i].k = k].v ELSE default

\* d[k] = v: an existing key keeps its place, a new key goes last
dict_set(d, k, v) ==
    IF dict_has(d, k)
    THEN [i \in 1..Len(d) |-> IF d[i].k = k THEN [k |-> k, v |-> v] ELSE d[i]]
    ELSE Append(d, [k |-> k, v |-> v])

---------------------------------------------------------------------------
(* Detection of the state-name property of the boundary features. *)

\* the candidate names, in the order the loop tries them
STATE_KEY_CANDIDATES ==
    << <<110, 97, 109, 101, 95, 49>>,                       \* "name_1"
       <<110, 97, 109, 101>>,                               \* "name"
       <<115, 116, 95, 110, 109>>,                          \* "st_nm"
       <<115, 116, 95, 110, 97, 109, 101>>,                 \* "st_name"
       <<115, 116, 97, 116, 101>>,                          \* "state"
       <<115, 116, 97, 116, 101, 95, 110, 97, 109, 101>> >> \* "state_name"

\* the test of the fallback scan on one property value
plausible_name(v) ==
    LET sval == PyStr(v)
    IN  /\ 2 < Len(sval)
        /\ Len(sval) < 40
        /\ \A i \in 1..Len(sval) :
               isalpha(sval[i]) \/ isspace(sval[i]) \/ sval[i] \in {38, 45}

\* detect_state_key_from_props with the two loops of the candidate search
\* exchanged: the first property that matches any candidate
detect_state_key_props_first(props) ==
    LET keys == dict_keys(props)
        isCand(k) == \E c \in 1..Len(STATE_KEY_CANDIDATES) :
                         STATE_KEY_CANDIDATES[c] = lower(k)
    IN  IF \E i \in 1..Len(keys) : isCand(keys[i])
        THEN keys[CHOOSE i \in 1..Len(keys) :
                      isCand(keys[i]) /\ \A j \in 1..(i - 1) : ~isCand(keys[j])]
        ELSE IF \E i \in 1..Len(props) : plausible_name(props[i].v)
        THEN keys[CHOOSE i \in 1..Len(props) :
                      /\ plausible_name(props[i].v)
                      /\ \A j \in 1..(i - 1) : ~plausible_name(props[j].v)]
        ELSE keys[1]

RECURSIVE cand_loop(_, _)
\* the loop over the candidates from candidate c on: the index of the
\* property it returns, or 0 when it falls through
cand_loop(props, c) ==
    LET keys == dict_keys(props)
        lkeys == [i \in 1..Len(keys) |-> lower(keys[i])]
    IN  IF c > Len(STATE_KEY_CANDIDATES) THEN 0
        ELSE IF \E i \in 1..Len(lkeys) : lkeys[i] = STATE_KEY_CANDIDATES[c]
        THEN CHOOSE i \in 1..Len(keys) :
                 /\ lower(keys[i]) = STATE_KEY_CANDIDATES[c]
                 /\ \A j \in 1..(i - 1) : lower(keys[j]) # STATE_KEY_CANDIDATES[c]
        ELSE cand_loop(props, c + 1)

RECURSIVE scan_loop(_, _)
\* the fallback scan from entry i on: the index it returns, or 0
scan_loop(props, i) ==
    IF i > Len(props) THEN 0
    ELSE IF plausible_name(props[i].v) THEN i
    ELSE scan_loop(props, i + 1)

\* props is not empty (list(props.keys())[0] raises on an empty mapping)
detect_state_key_from_props(props) ==
    LET byName == cand_loop(props, 1)
        byValue == scan_loop(props, 1)
    IN  IF byName # 0 THEN props[byName].k
        ELSE IF byValue # 0 THEN props[byValue].k
        ELSE props[1].k

---------------------------------------------------------------------------
(* The uploaded file and pandas.read_csv.  A file is a header and rows of  *)
(* text fields; an empty field is a missing value.                         *)

IsIntText(s) ==
    LET b == IF s # <<>> /\ s[1] = 45 THEN Tail(s) ELSE s
    IN  b # <<>> /\ \A i \in 1..Len(b) : b[i] \in 48..57

RECURSIVE NatOf(_)
NatOf(b) == IF b = <<>> THEN 0 ELSE 10 * NatOf(SubSeq(b, 1, Len(b) - 1)) + (b[Len(b)] - 48)

\* the integer an integer literal denotes
IntOf(s) == IF s[1] = 45 THEN -NatOf(Tail(s)) ELSE NatOf(s)

\* the column read_csv makes of the fields of one column: int64 when every
\* field is an integer, float64 when the others are missing, else object
\* (the fields as str); a column without rows is object
read_column(name, fields) ==
    LET n == Len(fields)
        allInt == \A i \in 1..n : IsIntText(fields[i])
        allNum == \A i \in 1..n : IsIntText(fields[i]) \/ fields[i] = <<>>
    IN  IF n = 0 THEN [name |-> name, dtype |-> "object", vals |-> <<>>]
        ELSE IF allInt
        THEN [name |-> name, dtype |-> "int64",
              vals |-> [i \in 1..n |-> IntV(IntOf(fields[i]))]]
        ELSE IF allNum
        THEN [name |-> name, dtype |-> "float64",
              vals |-> [i \in 1..n |->
                           IF fields[i] = <<>> THEN NaN
                           ELSE FloatV(IntOf(fields[i]))]]
        ELSE [name |-> name, dtype |-> "object",
              vals |-> [i \in 1..n |->
                           IF fields[i] = <<>> THEN NaN ELSE StrV(fields[i])]]

\* pd.read_csv(uploaded): the data frame as its columns, in file order
read_csv(file) ==
    [j \in 1..Len(file.header) |->
        read_column(file.header[j], [i \in 1..Len(file.rows) |-> file.rows[i][j]])]

column(df, name) == df[CHOOSE j \in 1..Len(df) : df[j].name = name]

---------------------------------------------------------------------------
(* Column detection. *)

\* sub in s
contains(s, sub) ==
    \E i \in 0..(Len(s) - Len(sub)) : SubSeq(s, i + 1, i + Len(sub)) = sub

\* the headers holding "state" or "ut", in column order
state_candidates(df) ==
    SelectSeq([j \in 1..Len(df) |-> df[j].name],
              LAMBDA c : \/ contains(lower(c), <<115, 116, 97, 116, 101>>)
                         \/ contains(lower(c), <<117, 116>>))

object_cols(df) ==
    SelectSeq([j \in 1..Len(df) |-> df[j].name],
              LAMBDA c : column(df, c).dtype = "object")

\* the detection falling back to the first column of any dtype
detect_state_col_any_column(df) ==
    IF state_candidates(df) # <<>> THEN state_candidates(df)[1]
    ELSE IF object_cols(df) # <<>> THEN object_cols(df)[1]
    ELSE df[1].name

\* the state column of the frame, or <<>> when the run stops for lack of one
detect_state_col(df) ==
    IF state_candidates(df) # <<>> THEN state_candidates(df)[1]
    ELSE IF object_cols(df) # <<>> THEN object_cols(df)[1]
    ELSE <<>>

\* how many leading non-missing values the numeric probe reads
SampleSize == 20

\* series.dropna().iloc[:20]
sample(vals) ==
    LET present == SelectSeq(vals, LAMBDA x : ~isna(x))
    IN  SubSeq(present, 1, IF Len(present) < SampleSize THEN Len(present)
                           ELSE SampleSize)

\* pd.to_numeric(sample) does not raise
to_numeric_ok(vals) ==
    \A i \in 1..Len(sample(vals)) :
        sample(vals)[i].t = "str" => IsIntText(sample(vals)[i].s)

\* numeric_cols: the columns of a numeric dtype, then every other column
\* whose sample converts
detect_numeric_cols(df) ==
    LET names == [j \in 1..Len(df) |-> df[j].name]
        byDtype == SelectSeq(names,
                       LAMBDA c : column(df, c).dtype \in {"int64", "float64"})
        probed == SelectSeq(names,
                      LAMBDA c : /\ column(df, c).dtype \notin {"int64", "float64"}
                                 /\ to_numeric_ok(column(df, c).vals))
    IN  byDtype \o probed

---------------------------------------------------------------------------
(* Annotation of the boundary features (lines 100-109). *)

K_STATE_RAW == <<95, 95, 115, 116, 97, 116, 101, 95, 114, 97, 119>>

K_STATE_NORM == <<95, 95, 115, 116, 97, 116, 101, 95, 110, 111, 114, 109>>

K_METRIC_VALUE == <<109, 101, 116, 114, 105, 99, 95, 118, 97, 108, 117, 101>>

\* one pass of the loop of lines 103-107 over a feature's properties
annotate(props, state_prop_key) ==
    LET raw_name == strip(PyStr(dict_get(props, state_prop_key, StrV(<<>>))))
        norm == apply_common_map(StrV(raw_name))
    IN  dict_set(dict_set(props, K_STATE_RAW, StrV(raw_name)),
                 K_STATE_NORM, StrV(norm))

\* the feature list after lines 100-107; features is not empty
annotate_all(features) ==
    LET state_prop_key == detect_state_key_from_props(features[1])
    IN  [i \in 1..Len(features) |-> annotate(features[i], state_prop_key)]

\* the set of line 109 built from the raw names instead of the canonical ones
compute_geo_norm_set_raw(features) ==
    {dict_get(features[i], K_STATE_RAW, NaN).s : i \in 1..Len(features)}

\* geo_norm_set of annotated features
compute_geo_norm_set(features) ==
    {dict_get(features[i], K_STATE_NORM, NaN).s : i \in 1..Len(features)}

---------------------------------------------------------------------------
(* Aggregation (lines 160-165). *)

\* df["__state_norm"]: the canonical name of every row
state_norms(df, scol) ==
    LET vals == column(df, scol).vals
    IN  [i \in 1..Len(vals) |-> apply_common_map(StrV(strip(PyStr(vals[i]))))]

RECURSIVE sum_num(_)
\* the sum of the values of a numeric column, missing values skipped
sum_num(cells) ==
    IF cells = <<>> THEN 0
    ELSE (IF isna(Head(cells)) THEN 0 ELSE Head(cells).v) + sum_num(Tail(cells))

RECURSIVE sum_obj(_)
\* the sum of the values of an object column: str + str, missing skipped
sum_obj(cells) ==
    IF cells = <<>> THEN <<>>
    ELSE (IF isna(Head(cells)) THEN <<>> ELSE Head(cells).s) \o sum_obj(Tail(cells))

\* GroupBy.sum of one group's cells of a column of the given dtype
group_sum(dtype, cells) ==
    CASE dtype = "int64" -> IntV(sum_num(cells))
      [] dtype = "float64" -> FloatV(sum_num(cells))
      [] OTHER -> IF \A i \in 1..Len(cells) : isna(cells[i]) THEN IntV(0)
                  ELSE StrV(sum_obj(cells))

\* state_to_value: df.groupby("__state_norm")[metric_col].sum() as a mapping
aggregate(df, scol, mcol) ==
    LET norms == state_norms(df, scol)
        col == column(df, mcol)
        rowsOf(key) == SelectSeq([i \in 1..Len(norms) |-> i],
                                 LAMBDA i : norms[i] = key)
        cellsOf(key) == [n \in 1..Len(rowsOf(key)) |-> col.vals[rowsOf(key)[n]]]
    IN  [key \in {norms[i] : i \in 1..Len(norms)} |->
            group_sum(col.dtype, cellsOf(key))]

---------------------------------------------------------------------------
(* The unmatched report (lines 167-168). *)

\* a < b for two str: by code point, a proper prefix first
StrLess(a, b) ==
    \E i \in 1..(Len(b)) :
        /\ i <= Len(a) + 1
        /\ \A j \in 1..(i - 1) : a[j] = b[j]
        /\ (i = Len(a) + 1 \/ a[i] < b[i])

RECURSIVE sorted(_)
\* sorted(list(S)) of a set of str
sorted(S) ==
    IF S = {} THEN <<>>
    ELSE LET m == CHOOSE x \in S : \A y \in S \ {x} : StrLess(x, y)
         IN  <<m>> \o sorted(S \ {m})

RECURSIVE sorted_desc(_)
\* the names in descending order
sorted_desc(S) ==
    IF S = {} THEN <<>>
    ELSE LET m == CHOOSE x \in S : \A y \in S \ {x} : StrLess(y, x)
         IN  <<m>> \o sorted_desc(S \ {m})

\* the report with reverse=True
compute_unmatched_reversed(s2v, geo_norms) == sorted_desc((DOMAIN s2v) \ geo_norms)

\* unmatched = sorted(list(csv_norm_set - geo_norm_set))
compute_unmatched(s2v, geo_norms) == sorted((DOMAIN s2v) \ geo_norms)

---------------------------------------------------------------------------
(* Reconciliation (lines 173-175). *)

\* float(x) does not raise ValueError
float_ok(x) == x.t = "str" => IsIntText(strip(x.s))

\* float(x)
py_float(x) ==
    CASE x.t = "str" -> FloatV(IntOf(strip(x.s)))
      [] x.t = "nan" -> NaN
      [] OTHER -> FloatV(x.v)

\* state_to_value.get(norm, 0.0) for a feature
looked_up(props, s2v) ==
    LET norm == dict_get(props, K_STATE_NORM, NaN).s
    IN  IF norm \in DOMAIN s2v THEN s2v[norm] ELSE FloatV(0)

\* the assignment of line 175 made only for the names the aggregate holds
assign_metric_matched_only(props, s2v) ==
    IF dict_get(props, K_STATE_NORM, NaN).s \in DOMAIN s2v
    THEN dict_set(props, K_METRIC_VALUE, py_float(looked_up(props, s2v)))
    ELSE props

\* the assignment of line 175 as an addition to the value already there
assign_metric_accumulate(props, s2v) ==
    dict_set(props, K_METRIC_VALUE,
             FloatV(dict_get(props, K_METRIC_VALUE, FloatV(0)).v
                    + py_float(looked_up(props, s2v)).v))

\* feat["properties"]["metric_value"] = float(state_to_value.get(norm, 0.0))
assign_metric(props, s2v) ==
    dict_set(props, K_METRIC_VALUE, py_float(looked_up(props, s2v)))

\* the first feature at which float() raises, or 0
first_raise(features, s2v) ==
    IF \E i \in 1..Len(features) : ~float_ok(looked_up(features[i], s2v))
    THEN CHOOSE i \in 1..Len(features) :
             /\ ~float_ok(looked_up(features[i], s2v))
             /\ \A j \in 1..(i - 1) : float_ok(looked_up(features[j], s2v))
    ELSE 0

\* the feature list after the loop: every feature assigned, or those before
\* the one at which float() raised
reconcile(features, s2v) ==
    LET r == first_raise(features, s2v)
    IN  [i \in 1..Len(features) |->
            IF r = 0 \/ i < r THEN assign_metric(features[i], s2v)
            ELSE features[i]]

---------------------------------------------------------------------------
(* Rendering (lines 180-228). *)

\* max(...) or `max_metric <= 0` raises TypeError: a str among the values
render_raises(s2v) == \E k \in DOMAIN s2v : s2v[k].t = "str"

RECURSIVE sort_desc(_)
\* sort_values(metric_col, ascending=False): rows [State, metric] by
\* descending metric, equal metrics in feature order
sort_desc(rows) ==
    IF rows = <<>> THEN <<>>
    ELSE LET i == CHOOSE i \in 1..Len(rows) :
                      /\ \A j \in 1..Len(rows) : rows[j].metric <= rows[i].metric
                      /\ \A j \in 1..(i - 1) : rows[j].metric < rows[i].metric
         IN  <<rows[i]>> \o
             sort_desc(SubSeq(rows, 1, i - 1) \o SubSeq(rows, i + 1, Len(rows)))

\* mapped_df
ranked_table(features) ==
    sort_desc([i \in 1..Len(features) |->
                  [State |-> dict_get(features[i], K_STATE_RAW, NaN).s,
                   metric |-> dict_get(features[i], K_METRIC_VALUE, NaN).v]])

---------------------------------------------------------------------------
(* The inputs of a run: the boundary files the two URLs may serve and the  *)
(* files a user may upload.                                                *)

Urls == {"india_state.geojson", "india_telengana.geojson"}

T_Odisha == <<79, 100, 105, 115, 104, 97>>

T_Orissa == <<79, 114, 105, 115, 115, 97>>

T_Kerala == <<75, 101, 114, 97, 108, 97>>

\* " KERALA "
T_KERALA_padded == <<32, 75, 69, 82, 65, 76, 65, 32>>

T_Assam == <<65, 115, 115, 97, 109>>

T_Goa == <<71, 111, 97>>

T_NAME_1 == <<78, 65, 77, 69, 95, 49>>

T_name == <<110, 97, 109, 101>>

T_Name == <<78, 97, 109, 101>>

T_id == <<105, 100>>

T_StateUT == <<83, 116, 97, 116, 101, 47, 85, 84>>

T_2022 == <<50, 48, 50, 50>>

T_2021 == <<50, 48, 50, 49>>

T_Region == <<82, 101, 103, 105, 111, 110>>

\* the regions of the specification's end-to-end example
BoundaryExample ==
    << <<[k |-> T_NAME_1, v |-> StrV(T_Orissa)]>>,
       <<[k |-> T_NAME_1, v |-> StrV(T_Kerala)]>>,
       <<[k |-> T_NAME_1, v |-> StrV(T_Goa)]>> >>

\* two regions with one canonical name, and a feature without the name
\* property
BoundaryDuplicate ==
    << <<[k |-> T_id, v |-> IntV(1)], [k |-> T_name, v |-> StrV(T_Odisha)]>>,
       <<[k |-> T_id, v |-> IntV(2)], [k |-> T_name, v |-> StrV(T_Orissa)]>>,
       <<[k |-> T_id, v |-> IntV(3)]>> >>

\* a feature collection without features
BoundaryEmpty == <<>>

BoundaryFiles == {BoundaryExample, BoundaryDuplicate, BoundaryEmpty}

NoFile == [kind |-> "none", header |-> <<>>, rows |-> <<>>]

\* a file read_csv raises on
UnreadableFile == [kind |-> "bad", header |-> <<>>, rows |-> <<>>]

CsvFile(header, rows) == [kind |-> "csv", header |-> header, rows |-> rows]

RowNames == {T_Odisha, T_Orissa, T_KERALA_padded, T_Assam}

\* a missing field, "-2", "5"
RowFields == {<<>>, <<45, 50>>, <<53>>}

\* the files "State/UT,2022" of up to MaxRows rows
GeneratedFiles ==
    {CsvFile(<<T_StateUT, T_2022>>, rows) :
        rows \in UNION {[1..n -> {<<nm, f>> : nm \in RowNames, f \in RowFields}] :
                            n \in 0..MaxRows}}

\* the records of the specification's aggregation example
ExampleFile ==
    CsvFile(<<T_StateUT, T_2022>>,
            << <<T_Odisha, <<49, 48>>>>, <<T_Orissa, <<53>>>>, <<T_Kerala, <<51>>>> >>)

\* no header holds "state" or "ut"; "Name" and "Region" are textual
FallbackFile ==
    CsvFile(<<T_Name, T_2022, T_Region>>,
            << <<T_Kerala, <<53>>, T_Goa>>, <<T_Goa, <<51>>, T_Goa>> >>)

\* numeric columns only
NumericOnlyFile == CsvFile(<<T_2022, T_2021>>, << <<<<53>>, <<51>>>> >>)

\* a textual column only
TextOnlyFile == CsvFile(<<T_StateUT>>, << <<T_Kerala>>, <<T_Assam>> >>)

\* a metric column whose first 20 values are numbers and whose 21st is
\* "abc": rows 1-18 "Goa,0", rows 19-20 "Kerala,3" and "Kerala,4", row 21
\* "<last>,abc"
LongFile(last) ==
    CsvFile(<<T_StateUT, T_2022>>,
            [i \in 1..(SampleSize + 1) |->
                IF i <= SampleSize - 2 THEN <<T_Goa, <<48>>>>
                ELSE IF i = SampleSize - 1 THEN <<T_Kerala, <<51>>>>
                ELSE IF i = SampleSize THEN <<T_Kerala, <<52>>>>
                ELSE <<last, <<97, 98, 99>>>>])

FixedFiles ==
    {NoFile, UnreadableFile, ExampleFile, FallbackFile, NumericOnlyFile,
     TextOnlyFile, LongFile(T_Assam), LongFile(T_Kerala)}

Uploads == GeneratedFiles \cup FixedFiles

\* the files uploaded in the course of a session of several runs
SessionUploads ==
    {NoFile, UnreadableFile, ExampleFile, NumericOnlyFile, TextOnlyFile,
     LongFile(T_Kerala),
     CsvFile(<<T_StateUT, T_2022>>, <<>>),
     CsvFile(<<T_StateUT, T_2022>>, << <<T_Orissa, <<53>>>> >>),
     CsvFile(<<T_StateUT, T_2022>>, << <<T_Orissa, <<45, 50>>>> >>),
     CsvFile(<<T_StateUT, T_2022>>, << <<T_Assam, <<53>>>> >>)}

---------------------------------------------------------------------------
(* One script run, statement group by statement group.  Streamlit runs the *)
(* script top to bottom on every interaction; st.stop() and an uncaught    *)
(* exception end the run.                                                  *)

\* a mutation of india_geojson reaches the memoized object when the run
\* holds that object itself
written_through(features) ==
    IF aliased THEN [memo EXCEPT ![geojson_url].obj = features] ELSE memo

Stop(how) ==
    /\ pc' = "stopped"
    /\ status' = how

\* A new run: the sidebar's widgets (lines 74-83) hold some upload and some
\* boundary source; every name of the script is unbound again.  A run in
\* progress is abandoned.
Rerun ==
    /\ pc' = "load"
    /\ status' = ""
    /\ geojson_url' \in Urls
    /\ uploaded' \in SessionUploads
    /\ df_raw' = <<>>
    /\ aliased' = FALSE
    /\ returned' = <<>>
    /\ india_geojson' = <<>>
    /\ geo_norm_set' = {}
    /\ state_col' = <<>>
    /\ numeric_cols' = <<>>
    /\ metric_col' = <<>>
    /\ state_to_value' = <<>>
    /\ unmatched' = <<>>
    /\ mapped_df' = <<>>
    /\ UNCHANGED <<geoData, memo>>
    /\ UNCHANGED harnessVars

\* load_geojson(geojson_url) returns (lines 88-95).  A first call fetches
\* and memoizes; a later call is answered from the memo.  What the caller
\* holds is either a copy or the memoized object itself.
LoadGeojson ==
    /\ pc = "load"
    /\ \E same \in BOOLEAN :
        /\ aliased' = same
        /\ IF memo[geojson_url].loaded
           THEN /\ india_geojson' = IF same THEN memo[geojson_url].obj
                                    ELSE geoData[geojson_url]
                /\ memo' = memo
           ELSE /\ india_geojson' = geoData[geojson_url]
                /\ memo' = [memo EXCEPT ![geojson_url] =
                               [loaded |-> TRUE, obj |-> geoData[geojson_url]]]
    /\ returned' = india_geojson'
    /\ pc' = "annotate"
    /\ UNCHANGED <<status, geoData, geojson_url, uploaded, df_raw, geo_norm_set,
                   state_col, numeric_cols, metric_col, state_to_value,
                   unmatched, mapped_df>>
    /\ UNCHANGED harnessVars

\* load_geojson raises (lines 96-98): the fetch of a URL not yet memoized
LoadGeojsonFails ==
    /\ pc = "load"
    /\ ~memo[geojson_url].loaded
    /\ Stop("geojson_error")
    /\ UNCHANGED <<geoData, memo, geojson_url, uploaded, df_raw, aliased, returned,
                   india_geojson, geo_norm_set, state_col, numeric_cols,
                   metric_col, state_to_value, unmatched, mapped_df>>
    /\ UNCHANGED harnessVars

\* lines 100-109
Annotate ==
    /\ pc = "annotate"
    /\ IF india_geojson = <<>> \/ india_geojson[1] = <<>>
       THEN \* features[0] or list(props.keys())[0] raises IndexError
            /\ Stop("exception")
            /\ UNCHANGED <<india_geojson, geo_norm_set, memo>>
       ELSE /\ india_geojson' = annotate_all(india_geojson)
            /\ geo_norm_set' = compute_geo_norm_set(india_geojson')
            /\ memo' = written_through(india_geojson')
            /\ pc' = "upload"
            /\ UNCHANGED status
    /\ UNCHANGED <<geoData, geojson_url, uploaded, df_raw, aliased, returned, state_col,
                   numeric_cols, metric_col, state_to_value, unmatched,
                   mapped_df>>
    /\ UNCHANGED harnessVars

\* lines 114-125
ReadUpload ==
    /\ pc = "upload"
    /\ CASE uploaded.kind = "none" -> Stop("no_upload")
         [] uploaded.kind = "bad" -> Stop("csv_error")
         [] OTHER -> pc' = "state_col" /\ UNCHANGED status
    /\ df_raw' = IF uploaded.kind = "csv" THEN read_csv(uploaded) ELSE <<>>
    /\ UNCHANGED <<geoData, memo, geojson_url, uploaded, aliased, returned,
                   india_geojson, geo_norm_set, state_col, numeric_cols,
                   metric_col, state_to_value, unmatched, mapped_df>>
    /\ UNCHANGED harnessVars

\* lines 129-139
DetectStateCol ==
    /\ pc = "state_col"
    /\ IF detect_state_col(df_raw) = <<>>
       THEN Stop("no_state_col") /\ UNCHANGED state_col
       ELSE /\ state_col' = detect_state_col(df_raw)
            /\ pc' = "metric_col"
            /\ UNCHANGED status
    /\ UNCHANGED <<geoData, memo, geojson_url, uploaded, df_raw, aliased, returned,
                   india_geojson, geo_norm_set, numeric_cols, metric_col,
                   state_to_value, unmatched, mapped_df>>
    /\ UNCHANGED harnessVars

\* lines 143-155: the selectbox returns one of the candidates
DetectMetricCol ==
    /\ pc = "metric_col"
    /\ numeric_cols' = detect_numeric_cols(df_raw)
    /\ IF numeric_cols' = <<>>
       THEN Stop("no_metric_col") /\ UNCHANGED metric_col
       ELSE /\ \E n \in 1..Len(numeric_cols') : metric_col' = numeric_cols'[n]
            /\ pc' = "aggregate"
            /\ UNCHANGED status
    /\ UNCHANGED <<geoData, memo, geojson_url, uploaded, df_raw, aliased, returned,
                   india_geojson, geo_norm_set, state_col, state_to_value,
                   unmatched, mapped_df>>
    /\ UNCHANGED harnessVars

\* lines 160-171
Aggregate ==
    /\ pc = "aggregate"
    /\ state_to_value' = aggregate(df_raw, state_col, metric_col)
    /\ unmatched' = compute_unmatched(state_to_value', geo_norm_set)
    /\ pc' = "reconcile"
    /\ UNCHANGED <<status, geoData, memo, geojson_url, uploaded, df_raw, aliased, returned,
                   india_geojson, geo_norm_set, state_col, numeric_cols,
                   metric_col, mapped_df>>
    /\ UNCHANGED harnessVars

\* lines 173-175: float() of a str that is no number raises ValueError in
\* the middle of the loop
Reconcile ==
    /\ pc = "reconcile"
    /\ india_geojson' = reconcile(india_geojson, state_to_value)
    /\ memo' = written_through(india_geojson')
    /\ IF first_raise(india_geojson, state_to_value) # 0
       THEN Stop("exception")
       ELSE pc' = "render" /\ UNCHANGED status
    /\ UNCHANGED <<geoData, geojson_url, uploaded, df_raw, aliased, returned, geo_norm_set,
                   state_col, numeric_cols, metric_col, state_to_value,
                   unmatched, mapped_df>>
    /\ UNCHANGED harnessVars

\* lines 180-228: the map and the ranked table
Render ==
    /\ pc = "render"
    /\ IF render_raises(state_to_value)
       THEN Stop("exception") /\ UNCHANGED mapped_df
       ELSE /\ mapped_df' = ranked_table(india_geojson)
            /\ pc' = "done"
            /\ status' = "done"
    /\ UNCHANGED <<geoData, memo, geojson_url, uploaded, df_raw, aliased, returned,
                   india_geojson, geo_norm_set, state_col, numeric_cols,
                   metric_col, state_to_value, unmatched>>
    /\ UNCHANGED harnessVars

HarnessIdle ==
    /\ arg = <<>>
    /\ out1 = <<>>
    /\ out2 = <<>>
    /\ phase = 0

Init ==
    /\ pc = "idle"
    /\ status = ""
    /\ geoData \in [Urls -> BoundaryFiles]
    /\ memo = [u \in Urls |-> [loaded |-> FALSE, obj |-> <<>>]]
    /\ geojson_url = "india_state.geojson"
    /\ uploaded = NoFile
    /\ df_raw = <<>>
    /\ aliased = FALSE
    /\ returned = <<>>
    /\ india_geojson = <<>>
    /\ geo_norm_set = {}
    /\ state_col = <<>>
    /\ numeric_cols = <<>>
    /\ metric_col = <<>>
    /\ state_to_value = <<>>
    /\ unmatched = <<>>
    /\ mapped_df = <<>>
    /\ HarnessIdle

Next ==
    \/ Rerun
    \/ LoadGeojson
    \/ LoadGeojsonFails
    \/ Annotate
    \/ ReadUpload
    \/ DetectStateCol
    \/ DetectMetricCol
    \/ Aggregate
    \/ Reconcile
    \/ Render

Spec == Init /\ [][Next]_vars

\* The first run of a fresh process: nothing is memoized, the widgets hold
\* any boundary source and any upload.
InitFirstRun ==
    /\ pc = "load"
    /\ status = ""
    /\ geoData \in [Urls -> BoundaryFiles]
    /\ memo = [u \in Urls |-> [loaded |-> FALSE, obj |-> <<>>]]
    /\ geojson_url \in Urls
    /\ uploaded \in Uploads
    /\ df_raw = <<>>
    /\ aliased = FALSE
    /\ returned = <<>>
    /\ india_geojson = <<>>
    /\ geo_norm_set = {}
    /\ state_col = <<>>
    /\ numeric_cols = <<>>
    /\ metric_col = <<>>
    /\ state_to_value = <<>>
    /\ unmatched = <<>>
    /\ mapped_df = <<>>
    /\ HarnessIdle

NextFirstRun ==
    \/ LoadGeojson
    \/ LoadGeojsonFails
    \/ Annotate
    \/ ReadUpload
    \/ DetectStateCol
    \/ DetectMetricCol
    \/ Aggregate
    \/ Reconcile
    \/ Render

SpecFirstRun == InitFirstRun /\ [][NextFirstRun]_vars

---------------------------------------------------------------------------
(* Harness of normalize_text: every text of up to MaxLen characters over   *)
(* an alphabet holding upper and lower case, an ampersand, ASCII and       *)
(* non-ASCII whitespace, accented letters and a letter without ASCII form. *)

\* A a & space tab e-acute no-break-space sharp-s fullwidth-ampersand
NormAlphabet == {65, 97, 38, 32, 9, 233, 160, 223, 65286}

PipelineIdle ==
    /\ pc = "idle"
    /\ status = ""
    /\ geoData = [u \in Urls |-> <<>>]
    /\ memo = [u \in Urls |-> [loaded |-> FALSE, obj |-> <<>>]]
    /\ geojson_url = "india_state.geojson"
    /\ uploaded = NoFile
    /\ df_raw = <<>>
    /\ aliased = FALSE
    /\ returned = <<>>
    /\ india_geojson = <<>>
    /\ geo_norm_set = {}
    /\ state_col = <<>>
    /\ numeric_cols = <<>>
    /\ metric_col = <<>>
    /\ state_to_value = <<>>
    /\ unmatched = <<>>
    /\ mapped_df = <<>>

InitNormalize ==
    /\ PipelineIdle
    /\ arg \in UNION {[1..n -> NormAlphabet] : n \in 0..MaxLen}
    /\ out1 = <<>>
    /\ out2 = <<>>
    /\ phase = 0

NormalizeOnce ==
    /\ phase = 0
    /\ out1' = normalize_text(StrV(arg))
    /\ phase' = 1
    /\ UNCHANGED <<arg, out2>>
    /\ UNCHANGED pipeVars

NormalizeTwice ==
    /\ phase = 1
    /\ out2' = normalize_text(StrV(out1))
    /\ phase' = 2
    /\ UNCHANGED <<arg, out1>>
    /\ UNCHANGED pipeVars

NextNormalize == NormalizeOnce \/ NormalizeTwice

SpecNormalize == InitNormalize /\ [][NextNormalize]_vars

---------------------------------------------------------------------------
(* Harness of detect_state_key_from_props: every mapping of up to MaxProps *)
(* properties over keys that match candidates in either order, in either   *)
(* casing or not at all, and values on both sides of every bound of the    *)
(* fallback test.                                                          *)

\* "NAME_1", "name", "Name", "id"
PropKeys == {T_NAME_1, T_name, T_Name, T_id}

\* "Goa", "Go", 12, "A&b -" , 39 and 40 letters, a missing value
PropValues ==
    {StrV(T_Goa), StrV(<<71, 111>>), IntV(12), StrV(<<65, 38, 98, 32, 45>>),
     StrV([i \in 1..39 |-> 97]), StrV([i \in 1..40 |-> 97]), NaN}

PropMaps ==
    {d \in UNION {[1..n -> [k : PropKeys, v : PropValues]] : n \in 1..MaxProps} :
        \A i, j \in 1..Len(d) : i # j => d[i].k # d[j].k}

InitDetect ==
    /\ PipelineIdle
    /\ arg \in PropMaps
    /\ out1 = <<>>
    /\ out2 = <<>>
    /\ phase = 0

DetectKey ==
    /\ phase = 0
    /\ out1' = detect_state_key_from_props(arg)
    /\ phase' = 1
    /\ UNCHANGED <<arg, out2>>
    /\ UNCHANGED pipeVars

NextDetect == DetectKey

SpecDetect == InitDetect /\ [][NextDetect]_vars

---------------------------------------------------------------------------
(* Properties. *)

\* the canonical name a feature carries
norm_of(props) == dict_get(props, K_STATE_NORM, NaN).s

\* the metric_value a feature carries (NaN: none)
metric_of(props) == dict_get(props, K_METRIC_VALUE, NaN)

\* the run got past line 168: state_to_value and unmatched are bound
Aggregated ==
    \/ pc \in {"reconcile", "render", "done"}
    \/ pc = "stopped" /\ status = "exception" /\ metric_col # <<>>

\* C1: after reconciliation in a completed run every region carries a
\* metric_value: the aggregate's value under the region's canonical name
\* when the aggregate holds that name, 0.0 otherwise.
C1_MetricFromAggregate ==
    pc = "done" =>
        \A i \in 1..Len(india_geojson) :
            LET props == india_geojson[i]
            IN  /\ dict_has(props, K_METRIC_VALUE)
                /\ metric_of(props).t = "float"
                /\ IF norm_of(props) \in DOMAIN state_to_value
                   THEN /\ state_to_value[norm_of(props)].t \in {"int", "float"}
                        /\ metric_of(props).v = state_to_value[norm_of(props)].v
                   ELSE metric_of(props).v = 0

\* a completed run with a region that took a non-zero aggregate value and a
\* region that took the default
C1_Witness ==
    /\ pc = "done"
    /\ \E i \in 1..Len(india_geojson) :
           /\ norm_of(india_geojson[i]) \in DOMAIN state_to_value
           /\ metric_of(india_geojson[i]).v # 0
    /\ \E i \in 1..Len(india_geojson) :
           /\ norm_of(india_geojson[i]) \notin DOMAIN state_to_value
           /\ metric_of(india_geojson[i]) = FloatV(0)

C3_MetricNonNegative ==
    pc = "done" =>
        \A i \in 1..Len(india_geojson) : metric_of(india_geojson[i]).v >= 0

\* the number a text field of the uploaded file stands for: a field that is
\* missing or no number counts as zero
field_value(f) == IF IsIntText(f) THEN IntOf(f) ELSE 0

\* the index of a header in the uploaded file
header_index(name) ==
    CHOOSE j \in 1..Len(uploaded.header) : uploaded.header[j] = name

RECURSIVE record_sum(_, _)
\* the sum of the chosen metric over the first n uploaded records whose name
\* resolves to the canonical name key
record_sum(key, n) ==
    IF n = 0 THEN 0
    ELSE record_sum(key, n - 1) +
         (IF apply_common_map(StrV(strip(uploaded.rows[n][header_index(state_col)]))) = key
          THEN field_value(uploaded.rows[n][header_index(metric_col)])
          ELSE 0)

\* the canonical names of the uploaded records
record_names ==
    {apply_common_map(StrV(strip(uploaded.rows[n][header_index(state_col)]))) :
        n \in 1..Len(uploaded.rows)}

\* C4: the aggregate has exactly one entry per canonical name of the
\* uploaded records, and its value is the sum of the chosen metric over the
\* records of that name.
C4_AggregateIsSum ==
    (Aggregated /\ column(df_raw, state_col).dtype = "object") =>
        /\ DOMAIN state_to_value = record_names
        /\ \A key \in DOMAIN state_to_value :
               /\ state_to_value[key].t \in {"int", "float"}
               /\ state_to_value[key].v = record_sum(key, Len(uploaded.rows))

\* C5: with any candidate metric column the run is not aborted by the
\* aggregation, and a record whose metric is missing or no number adds zero
\* to its group's numeric sum.
C5_AggregationTolerant ==
    /\ metric_col # <<>> => status # "exception"
    /\ (Aggregated /\ column(df_raw, state_col).dtype = "object") =>
           \A key \in DOMAIN state_to_value :
               /\ state_to_value[key].t # "str"
               /\ state_to_value[key].v = record_sum(key, Len(uploaded.rows))

\* C6: normalize_text applied to its own result returns that result.
C6_NormalizeIdempotent == phase = 2 => out2 = out1

\* a text with an ampersand, an upper-case letter, whitespace and a
\* non-ASCII character, normalised twice
C6_Witness ==
    /\ phase = 2
    /\ out1 # arg
    /\ \E i \in 1..Len(arg) : arg[i] = 38
    /\ \E i \in 1..Len(arg) : arg[i] = 65
    /\ \E i \in 1..Len(arg) : isspace(arg[i])
    /\ \E i \in 1..Len(arg) : arg[i] > 127

\* the run stopped on a fatal condition of the uploaded data
Fatal == pc = "stopped" /\ status \in {"no_state_col", "no_metric_col"}

\* no header holds "state" or "ut" and no column is textual
NoNameColumn ==
    \A j \in 1..Len(df_raw) :
        /\ ~contains(lower(df_raw[j].name), <<115, 116, 97, 116, 101>>)
        /\ ~contains(lower(df_raw[j].name), <<117, 116>>)
        /\ df_raw[j].dtype # "object"

\* no column is numeric or converts to numbers on its first values
NoMetricColumn ==
    \A j \in 1..Len(df_raw) :
        /\ df_raw[j].dtype \notin {"int64", "float64"}
        /\ ~to_numeric_ok(df_raw[j].vals)

\* what holds in every state of a run as to its fatal conditions: a frame
\* without a name column stops the run at the name check, whatever its
\* metric columns; a frame with a name column and without a metric column
\* stops it at the metric check; and a stopped run has no aggregate, no
\* report, no table and no metric_value the loaded features did not have
FatalStopsEarly ==
    /\ (df_raw # <<>> /\ pc # "state_col" /\ NoNameColumn) =>
           (Fatal /\ status = "no_state_col")
    /\ (df_raw # <<>> /\ pc \notin {"state_col", "metric_col"}
            /\ ~NoNameColumn /\ NoMetricColumn) =>
           (Fatal /\ status = "no_metric_col")
    /\ Fatal =>
           /\ state_to_value = <<>>
           /\ unmatched = <<>>
           /\ mapped_df = <<>>
           /\ metric_col = <<>>
           /\ \A i \in 1..Len(india_geojson) :
                  metric_of(india_geojson[i]) = metric_of(returned[i])
           /\ status = "no_state_col" => numeric_cols = <<>>

\* C7: a run in which a fatal condition arises halts there: aggregation,
\* reconciliation and rendering never run in it, no region receives a
\* metric_value, nothing is produced, and the name-column check precedes
\* the metric-column check.  After the stop the only step is a new run.
C7_FatalHalts ==
    /\ []FatalStopsEarly
    /\ [][Fatal => (pc' = "load" /\ state_to_value' = <<>> /\ unmatched' = <<>>
                        /\ mapped_df' = <<>>)]_vars

\* a run stopped at the name check of a frame read from the upload, the
\* metric check not made
C7_Witness ==
    /\ Fatal
    /\ status = "no_state_col"
    /\ df_raw # <<>>
    /\ numeric_cols = <<>>
    /\ \E j \in 1..Len(df_raw) : df_raw[j].dtype = "int64"

FirstRunFeatures ==
    LET df == read_csv(uploaded)
    IN  reconcile(annotate_all(geoData[geojson_url]),
                  aggregate(df, detect_state_col(df), metric_col))

FirstRunUnmatched ==
    LET df == read_csv(uploaded)
    IN  compute_unmatched(aggregate(df, detect_state_col(df), metric_col),
                          compute_geo_norm_set(annotate_all(geoData[geojson_url])))

\* C9: the metric values and the unmatched report of a completed run are
\* those a first run of a fresh process makes of the same boundary source,
\* upload and metric, whatever runs came before.
C9_RunsIndependent ==
    pc = "done" =>
        /\ Len(india_geojson) = Len(FirstRunFeatures)
        /\ \A i \in 1..Len(india_geojson) :
               /\ dict_has(india_geojson[i], K_METRIC_VALUE)
               /\ metric_of(india_geojson[i]) = metric_of(FirstRunFeatures[i])
               /\ norm_of(india_geojson[i]) = norm_of(FirstRunFeatures[i])
        /\ unmatched = FirstRunUnmatched

\* a completed run on the memoized object itself, which came with another
\* metric_value from an earlier run
C9_Witness ==
    /\ pc = "done"
    /\ aliased
    /\ \E i \in 1..Len(india_geojson) :
           /\ dict_has(returned[i], K_METRIC_VALUE)
           /\ metric_of(returned[i]) # metric_of(india_geojson[i])

RECURSIVE metric_total(_)
\* the sum of metric_value over the features
metric_total(features) ==
    IF features = <<>> THEN 0
    ELSE metric_of(Head(features)).v + metric_total(Tail(features))

RECURSIVE unmatched_total(_)
\* the sum of the aggregate's values over the names of the report
unmatched_total(names) ==
    IF names = <<>> THEN 0
    ELSE state_to_value[Head(names)].v + unmatched_total(Tail(names))

RECURSIVE upload_total(_)
\* the sum of the chosen metric over the first n uploaded records
upload_total(n) ==
    IF n = 0 THEN 0
    ELSE upload_total(n - 1) + field_value(uploaded.rows[n][header_index(metric_col)])

\* C10: in a completed run over regions of pairwise different canonical
\* names, the regions' metric values and the aggregate values of the
\* unmatched names add up to the metric's total over the uploaded records.
C10_TotalConserved ==
    (/\ pc = "done"
     /\ \A i, j \in 1..Len(india_geojson) :
            i # j => norm_of(india_geojson[i]) # norm_of(india_geojson[j])) =>
        metric_total(india_geojson) + unmatched_total(unmatched)
            = upload_total(Len(uploaded.rows))

\* a completed run with a region holding a value and a value reported
\* unmatched
C10_Witness ==
    /\ pc = "done"
    /\ \A i, j \in 1..Len(india_geojson) :
           i # j => norm_of(india_geojson[i]) # norm_of(india_geojson[j])
    /\ unmatched # <<>>
    /\ state_to_value[unmatched[1]].v # 0
    /\ \E i \in 1..Len(india_geojson) : metric_of(india_geojson[i]).v # 0

===========================================================================
